---- MODULE Spec2Model ----
(***************************************************************************)
(* Model of the resumable chunked relay engine of src/worker.js (Turbo     *)
(* edition): runRelay, its parallel upload loop, the deadline check, the   *)
(* continuation trigger (triggerNextWorker + the ?resume=true route) and   *)
(* the finalizer.                                                          *)
(*                                                                         *)
(* Bytes are modelled by their offset in the source object: the source of  *)
(* size n is the sequence <<0, 1, ..., n-1>>, so the content of a part     *)
(* says which source bytes it holds.  CHUNK_SIZE is scaled from 512 KiB    *)
(* to 2 bytes; every other constant keeps the value of the source.         *)
(* The wall clock is abstracted to one bit per invocation, late, which is  *)
(* TRUE once Date.now() - START_TIME > MAX_RUNTIME; it becomes TRUE during *)
(* an await and never becomes FALSE again.                                 *)
(***************************************************************************)
EXTENDS Integers, Sequences, FiniteSets, TLC

\* ---- bounds of the model ----
MaxSize == 9        \* largest source object, in bytes
MaxRead == 9        \* largest value one reader.read() returns, in bytes
MaxInv == 2         \* invocations of runRelay over the life of the job
DupSize == 3        \* largest source object when requests may be duplicated
DupInv == 3         \* invocations when requests may be duplicated
TwinSize == 6       \* largest source object when two successors run side by side
SharedSize == 4     \* largest source object when the checkpoint is shared
SharedInv == 3      \* invocations when the checkpoint is shared
NoRangeSize == 5    \* largest source object behind a source without ranges
NoLengthSize == 5   \* largest source object behind a source without length
CmdSize == 3        \* largest source object when the bindings may be missing
RestartSize == 3    \* largest source object of a job that is started again
RestartInv == 3     \* invocations of the two jobs of a restarted link
BurstSize == 24     \* largest source object of the Short Burst variant
BurstRead == 5      \* largest number of bytes one read delivers there
BurstInv == 2       \* invocations of a Short Burst job
StableSize == 22    \* largest source object of the Final Stable variant
StableRead == 3     \* largest number of bytes one read delivers there
StableInv == 2      \* invocations of a Final Stable job
DirectSize == 6     \* largest source object offered to the direct-stream bot
DirectRead == 3     \* largest number of bytes one read delivers there
HybridSize == 6     \* largest source object offered to the hybrid bot

\* ---- program constants ----
CHUNK_SIZE == 2         \* worker.js:98  (512 * 1024, scaled)
PARALLEL_CHUNKS == 4    \* worker.js:13
DISPATCH_TRIES == 3     \* worker.js:244 (for i < 3)

VARIABLES
    bot,         \* the one-shot bots (Worker.js, hybrid bot): their request
    env,         \* bindings of the deployment: is LEECH_DB, WORKER_URL, SELF set
    totalSize,   \* byte length of the source object behind link
    db,          \* LEECH_DB entry of link: NoState or the stored state
    inv,         \* the invocations of runRelay, by slot
    saved,       \* SaveBigFilePart requests the destination accepted
    composed,    \* SendMedia requests issued
    msgs,        \* error messages sent to the chat (sendMessage in catch)
    nextFileId   \* source of fresh fileIds (Math.random)

vars == <<bot, env, totalSize, db, inv, saved, composed, msgs, nextFileId>>

NoState == [fileId |-> 0, totalParts |-> 0, totalSize |-> 0]

\* no request of a one-shot bot is under way
NoBot == [pc |-> "idle"]

Max(a, b) == IF a > b THEN a ELSE b

Slots == 1..Max(MaxInv, Max(DupInv, SharedInv))

Min(a, b) == IF a < b THEN a ELSE b

\* Math.ceil(a / b) for a >= 0, b > 0
Ceil(a, b) == (a + b - 1) \div b

\* the bytes of the source object from offset from on (Range: bytes=from-)
SourceFrom(from, size) == [k \in 1..(size - from) |-> from + k - 1]

\* buffer.slice(0, n) and buffer.slice(n)
SliceTo(buf, n) == SubSeq(buf, 1, n)
\* a slice of the rest that loses the byte at the cut
SliceFromNext(buf, n) == SubSeq(buf, n + 2, Len(buf))
SliceFrom(buf, n) == SubSeq(buf, n + 1, Len(buf))

\* the chat and the status message of the /leech command
ChatId == 1
MsgId == 1

IdleInv ==
    [pc |-> "idle", startPart |-> 0, chatId |-> 0, msgId |-> 0,
     late |-> FALSE, state |-> NoState, byteStart |-> 0, pos |-> 0,
     partIdx |-> 0, chunksProcessed |-> 0,
     buffer |-> <<>>, done |-> FALSE, batch |-> <<>>, tries |-> 0,
     trig |-> <<>>, sent |-> <<>>, err |-> "", parent |-> 0]

\* runRelay(link, chatId, env, startPart, msgId) has just been called
NewInv(startPart, chatId, msgId, parent) ==
    [IdleInv EXCEPT !.pc = "connect", !.startPart = startPart,
                    !.chatId = chatId, !.msgId = msgId,
                    !.partIdx = startPart, !.parent = parent]

\* invocations started so far
Used == Cardinality({s \in Slots : inv[s].pc # "idle"})
FreeSlot == CHOOSE s \in Slots :
                /\ inv[s].pc = "idle"
                /\ \A t \in Slots : inv[t].pc = "idle" => s <= t

\* throw inside the try block of runRelay: control moves to catch
Throw(i, e) == [inv EXCEPT ![i].pc = "catch", ![i].err = e]

(***************************************************************************)
(* The inner collection loop (worker.js:137-169): slices up to             *)
(* PARALLEL_CHUNKS chunks off the front of the buffer and starts one       *)
(* SaveBigFilePart for each.  isLate is the reading of the clock at the    *)
(* time the uploads are started; it is kept with each upload.              *)
(***************************************************************************)
\* the filePart and bytes of one SaveBigFilePart request (worker.js:147-151)
SavePart(filePart, bytes) == [filePart |-> filePart, bytes |-> bytes]

RECURSIVE Collect(_, _, _, _, _)
Collect(buf, idx, loopCount, acc, isLate) ==
    IF loopCount < PARALLEL_CHUNKS /\ Len(buf) > 0
    THEN LET currentChunkSize == Min(CHUNK_SIZE, Len(buf))
             chunk == SliceTo(buf, currentChunkSize)
             rest == SliceFrom(buf, currentChunkSize)
             p == [part |-> idx, bytes |-> chunk, st |-> "try1", n |-> 1,
                   late |-> isLate, req |-> SavePart(idx, chunk)]
         IN  IF currentChunkSize < CHUNK_SIZE
             THEN [buffer |-> rest, partIdx |-> idx + 1,
                   batch |-> Append(acc, p)]
             ELSE Collect(rest, idx + 1, loopCount + 1, Append(acc, p), isLate)
    ELSE [buffer |-> buf, partIdx |-> idx, batch |-> acc]

\* condition of the inner while (worker.js:134)
HasWork(buf, done) == Len(buf) >= CHUNK_SIZE \/ (done /\ Len(buf) > 0)

(***************************************************************************)
(* Control after the buffer changed or a batch completed, up to the next   *)
(* await: start the next batch when the inner while condition holds,       *)
(* leave both loops when the stream is done and the buffer is empty, and   *)
(* go back to the top of the outer loop otherwise (worker.js:134-186).     *)
(***************************************************************************)
Advance(r, buf, done) ==
    IF HasWork(buf, done)
    THEN LET c == Collect(buf, r.partIdx, 0, <<>>, r.late)
         IN  [r EXCEPT !.pc = "await_batch", !.buffer = c.buffer,
                       !.partIdx = c.partIdx, !.batch = c.batch,
                       !.done = done]
    ELSE IF done /\ Len(buf) = 0
         THEN [r EXCEPT !.pc = "finish", !.buffer = buf, !.done = done,
                        !.batch = <<>>]
         ELSE [r EXCEPT !.pc = "loop", !.buffer = buf, !.done = done,
                        !.batch = <<>>]

\* a deployment with every binding set
FullEnv == [LEECH_DB |-> TRUE, WORKER_URL |-> TRUE, SELF |-> TRUE]

InitSize(maxSize) ==
    /\ bot = NoBot
    /\ env = FullEnv
    /\ totalSize \in 1..maxSize
    /\ db = NoState
    /\ inv = [s \in Slots |-> IF s = 1 THEN NewInv(0, ChatId, MsgId, 0)
                                       ELSE IdleInv]
    /\ saved = {}
    /\ composed = {}
    /\ msgs = {}
    /\ nextFileId = 1

Init == InitSize(MaxSize)

\* worker.js:69-71  client.connect()
Connect(i, ok) ==
    /\ inv[i].pc = "connect"
    /\ inv' = IF ok THEN [inv EXCEPT ![i].pc = "getstate"]
                     ELSE Throw(i, "connect")
    /\ UNCHANGED <<bot, env, totalSize, db, saved, composed, msgs, nextFileId>>

\* worker.js:74-77  state = LEECH_DB.get(link); startPart === 0 || !state
\* (env.LEECH_DB.get throws a TypeError when the binding is missing)
GetState(i) ==
    /\ inv[i].pc = "getstate"
    /\ inv' = IF ~env.LEECH_DB
              THEN Throw(i, "config")
              ELSE IF inv[i].startPart = 0 \/ db = NoState
                   THEN [inv EXCEPT ![i].pc = "head", ![i].state = db]
                   ELSE [inv EXCEPT ![i].pc = "range", ![i].state = db]
    /\ UNCHANGED <<bot, env, totalSize, db, saved, composed, msgs, nextFileId>>

\* a setup that keeps the checkpoint it found instead of replacing it
HeadPutReuse(i, ok) ==
    /\ inv[i].pc = "head"
    /\ IF ok
       THEN LET state == IF inv[i].state # NoState
                         THEN inv[i].state
                         ELSE [fileId |-> nextFileId,
                               totalParts |-> Ceil(totalSize, CHUNK_SIZE),
                               totalSize |-> totalSize]
            IN  /\ inv' = [inv EXCEPT ![i].pc = "range", ![i].state = state]
                /\ db' = state
                /\ nextFileId' = nextFileId + 1
       ELSE /\ inv' = Throw(i, "head")
            /\ UNCHANGED <<db, nextFileId>>
    /\ UNCHANGED <<bot, env, totalSize, saved, composed, msgs>>

\* worker.js:78-94  HEAD, totalParts, fresh fileId, LEECH_DB.put
HeadPut(i, ok) ==
    /\ inv[i].pc = "head"
    /\ IF ok
       THEN LET state == [fileId |-> nextFileId,
                          totalParts |-> Ceil(totalSize, CHUNK_SIZE),
                          totalSize |-> totalSize]
            IN  /\ inv' = [inv EXCEPT ![i].pc = "range", ![i].state = state]
                /\ db' = state
                /\ nextFileId' = nextFileId + 1
       ELSE /\ inv' = Throw(i, "head")
            /\ UNCHANGED <<db, nextFileId>>
    /\ UNCHANGED <<bot, env, totalSize, saved, composed, msgs>>

\* worker.js:100  offset of the Range header
ByteStart(startPart) == startPart * CHUNK_SIZE

\* a ranged GET whose response is read without the test of response.ok
RangeFetchUnchecked(i, up) ==
    /\ inv[i].pc = "range"
    /\ LET byteStart == ByteStart(inv[i].startPart)
       IN  inv' = [inv EXCEPT ![i].pc = "loop", ![i].pos = byteStart,
                              ![i].byteStart = byteStart,
                              ![i].partIdx = inv[i].startPart,
                              ![i].buffer = <<>>]
    /\ UNCHANGED <<bot, env, totalSize, db, saved, composed, msgs, nextFileId>>

\* worker.js:100-111  ranged GET from byteStart, response.ok, getReader
RangeFetch(i, up) ==
    /\ inv[i].pc = "range"
    /\ LET byteStart == ByteStart(inv[i].startPart)
       IN     inv' = IF up /\ byteStart < totalSize
                     THEN [inv EXCEPT ![i].pc = "loop", ![i].pos = byteStart,
                                      ![i].byteStart = byteStart,
                                      ![i].partIdx = inv[i].startPart,
                                      ![i].buffer = <<>>]
                     ELSE Throw(i, IF up THEN "Stream Error: 416"
                                         ELSE "Stream Error: 5xx")
    /\ UNCHANGED <<bot, env, totalSize, db, saved, composed, msgs, nextFileId>>

\* Payload with the cursor of the invocation's start instead of partIdx
PayloadFromStart(r) ==
    [chatId |-> r.chatId, nextPart |-> r.startPart, msgId |-> r.msgId]

\* arguments of triggerNextWorker (worker.js:117), the body of the
\* continuation request (worker.js:248)
Payload(r) == [chatId |-> r.chatId, nextPart |-> r.partIdx, msgId |-> r.msgId]

\* an outer loop that starts the next read without looking at the clock
CheckTimeoutNever(i) ==
    /\ inv[i].pc = "loop"
    /\ inv' = [inv EXCEPT ![i].pc = "read"]
    /\ UNCHANGED <<bot, env, totalSize, db, saved, composed, msgs, nextFileId>>

\* worker.js:116-121  deadline check at the top of the outer loop, then
\* reader.read() is started; triggerNextWorker returns at once when
\* WORKER_URL is missing (worker.js:242)
CheckTimeout(i) ==
    /\ inv[i].pc = "loop"
    /\ inv' = IF inv[i].late
              THEN IF env.WORKER_URL
                   THEN [inv EXCEPT ![i].pc = "dispatch", ![i].tries = 0,
                                    ![i].trig = Append(@, Payload(inv[i]))]
                   ELSE [inv EXCEPT ![i].pc = "done",
                                    ![i].trig = Append(@, Payload(inv[i])),
                                    ![i].buffer = <<>>, ![i].pos = 0]
              ELSE [inv EXCEPT ![i].pc = "read"]
    /\ UNCHANGED <<bot, env, totalSize, db, saved, composed, msgs, nextFileId>>

\* worker.js:121-169  reader.read() resolves; append; first batch started
ReadValue(i) ==
    /\ inv[i].pc = "read"
    /\ inv[i].pos < totalSize
    /\ \E n \in 1..Min(MaxRead, totalSize - inv[i].pos) :
          LET value == SliceTo(SourceFrom(inv[i].pos, totalSize), n)
              r == [inv[i] EXCEPT !.pos = inv[i].pos + n]
          IN  inv' = [inv EXCEPT ![i] = Advance(r, inv[i].buffer \o value,
                                                FALSE)]
    /\ UNCHANGED <<bot, env, totalSize, db, saved, composed, msgs, nextFileId>>

\* worker.js:121-122, 134  reader.read() resolves with done
ReadDone(i) ==
    /\ inv[i].pc = "read"
    /\ inv[i].pos = totalSize
    /\ inv' = [inv EXCEPT ![i] = Advance(inv[i], inv[i].buffer, TRUE)]
    /\ UNCHANGED <<bot, env, totalSize, db, saved, composed, msgs, nextFileId>>

\* worker.js:121  reader.read() rejects
ReadFail(i) ==
    /\ inv[i].pc = "read"
    /\ inv' = Throw(i, "read")
    /\ UNCHANGED <<bot, env, totalSize, db, saved, composed, msgs, nextFileId>>

\* the invocation still holds the connection its uploads travel on
Connected(i) == inv[i].pc \in {"await_batch", "catch"}

\* worker.js:147-152, 155-160  the destination accepts a SaveBigFilePart
UploadOk(i, j) ==
    /\ Connected(i)
    /\ j \in 1..Len(inv[i].batch)
    /\ inv[i].batch[j].st \in {"try1", "try2"}
    /\ inv' = [inv EXCEPT ![i].batch[j].st = "ok"]
    /\ saved' = saved \cup {[fileId |-> inv[i].state.fileId,
                             part |-> inv[i].batch[j].req.filePart,
                             bytes |-> inv[i].batch[j].req.bytes,
                             by |-> i]}
    /\ UNCHANGED <<bot, env, totalSize, db, composed, msgs, nextFileId>>

\* Retry that reads the loop variable partIdx, which has moved on, instead
\* of the captured currentPart
RetryNextIndex(p) == [p EXCEPT !.st = "try2", !.n = p.n + 1,
                               !.req = SavePart(p.part + 1, p.bytes)]

\* Retry that slices its bytes off the buffer, which has moved on to the
\* chunk behind, instead of sending the captured chunk
RetryNextChunk(p) ==
    [p EXCEPT !.st = "try2", !.n = p.n + 1,
              !.req = SavePart(p.part, [k \in 1..Len(p.bytes) |->
                                           p.bytes[k] + Len(p.bytes)])]

\* what .catch does with a rejected first attempt (worker.js:152-161)
Retry(p) == [p EXCEPT !.st = "try2", !.n = p.n + 1,
                      !.req = SavePart(p.part, p.bytes)]

\* worker.js:152-161  a SaveBigFilePart rejects: the first attempt is
\* retried at once, the retry's rejection rejects the part's promise
UploadFail(i, j) ==
    /\ Connected(i)
    /\ j \in 1..Len(inv[i].batch)
    /\ inv[i].batch[j].st \in {"try1", "try2"}
    /\ inv' = IF inv[i].batch[j].st = "try1"
              THEN [inv EXCEPT ![i].batch[j] = Retry(inv[i].batch[j])]
              ELSE [inv EXCEPT ![i].batch[j].st = "failed"]
    /\ UNCHANGED <<bot, env, totalSize, db, saved, composed, msgs, nextFileId>>

\* a wait that ends with the first upload that succeeds (Promise.any)
AnyFulfilled(b) == \E j \in 1..Len(b) : b[j].st = "ok"

\* Promise.all(uploadPromises) has fulfilled / has rejected
AllFulfilled(b) == \A j \in 1..Len(b) : b[j].st = "ok"
AnyRejected(b) == \E j \in 1..Len(b) : b[j].st = "failed"

\* The wall clock passes MAX_RUNTIME during one of the awaits.  The program
\* reads the clock only when it runs, so the passing is placed during the
\* range request, during a read, or at the end of the wait for a batch.
Tick(i) ==
    /\ \/ inv[i].pc \in {"range", "read"}
       \/ inv[i].pc = "await_batch" /\ AllFulfilled(inv[i].batch)
    /\ ~inv[i].late
    /\ inv' = [inv EXCEPT ![i].late = TRUE]
    /\ UNCHANGED <<bot, env, totalSize, db, saved, composed, msgs, nextFileId>>

\* worker.js:172-186  Promise.all fulfils; progress edit; next batch, next
\* read or end of the loops
BatchDone(i, editOk) ==
    /\ inv[i].pc = "await_batch"
    /\ AllFulfilled(inv[i].batch)
    /\ inv' = IF editOk
              THEN [inv EXCEPT ![i] = Advance(inv[i], inv[i].buffer,
                                              inv[i].done)]
              ELSE Throw(i, "edit")
    /\ UNCHANGED <<bot, env, totalSize, db, saved, composed, msgs, nextFileId>>

\* worker.js:173, 221  Promise.all rejects as soon as one part has failed
BatchReject(i) ==
    /\ inv[i].pc = "await_batch"
    /\ AnyRejected(inv[i].batch)
    /\ inv' = Throw(i, "part")
    /\ UNCHANGED <<bot, env, totalSize, db, saved, composed, msgs, nextFileId>>

\* a finalizer that issues SendMedia again when it has failed
ComposeRetry(i, out) ==
    /\ inv[i].pc = "finish"
    /\ inv' = CASE out = "ok" -> [inv EXCEPT ![i].pc = "delete"]
                [] out = "fail" -> inv
                [] OTHER -> Throw(i, "finish")
    /\ composed' = IF out = "before" THEN composed
                   ELSE composed \cup
                          {[fileId |-> inv[i].state.fileId,
                            parts |-> inv[i].state.totalParts,
                            by |-> i, ok |-> (out = "ok")]}
    /\ UNCHANGED <<bot, env, totalSize, db, saved, msgs, nextFileId>>

\* worker.js:189-217  "Upload 100%", getMe, getEntity, SendMedia
Compose(i, out) ==
    /\ inv[i].pc = "finish"
    /\ inv' = CASE out = "ok" -> [inv EXCEPT ![i].pc = "delete"]
                [] out = "fail" -> Throw(i, "compose")
                [] OTHER -> Throw(i, "finish")
    /\ composed' = IF out = "before" THEN composed
                   ELSE composed \cup
                          {[fileId |-> inv[i].state.fileId,
                            parts |-> inv[i].state.totalParts,
                            by |-> i, ok |-> (out = "ok")]}
    /\ UNCHANGED <<bot, env, totalSize, db, saved, msgs, nextFileId>>

\* worker.js:219, 224  LEECH_DB.delete(link); finally
Delete(i) ==
    /\ inv[i].pc = "delete"
    /\ db' = NoState
    /\ inv' = [inv EXCEPT ![i].pc = "done"]
    /\ UNCHANGED <<bot, env, totalSize, saved, composed, msgs, nextFileId>>

\* a resume route that starts runRelay at part 0 whatever the payload says
ResumeAtZero(payload, from) ==
    NewInv(0, payload.chatId, payload.msgId, from)

\* worker.js:51-54  the ?resume=true route starts runRelay from the payload
Resume(payload, from) ==
    NewInv(payload.nextPart, payload.chatId, payload.msgId, from)

\* a retry loop without the break after a fetch that resolved
DispatchNoBreak(i, out, limit) ==
    /\ inv[i].pc = "dispatch"
    /\ LET delivered == out \in {"accepted", "replylost"}
           resolved == out \in {"accepted", "rejected"}
           body == inv[i].trig[Len(inv[i].trig)]
           tries == inv[i].tries + 1
           returns == tries >= DISPATCH_TRIES
           r == [inv[i] EXCEPT
                   !.sent = Append(@, [body |-> body,
                                       delivered |-> delivered,
                                       resolved |-> resolved]),
                   !.tries = tries,
                   !.pc = IF returns THEN "done" ELSE "dispatch",
                   !.buffer = IF returns THEN <<>> ELSE @,
                   !.pos = IF returns THEN 0 ELSE @]
       IN  /\ delivered => Used < limit
           /\ inv' = IF delivered
                     THEN [inv EXCEPT ![i] = r,
                                      ![FreeSlot] = Resume(body, i)]
                     ELSE [inv EXCEPT ![i] = r]
    /\ UNCHANGED <<bot, env, totalSize, db, saved, composed, msgs, nextFileId>>

(***************************************************************************)
(* One pass of the retry loop of triggerNextWorker (worker.js:244-252).    *)
(*   accepted: the request reaches the resume route and fetch resolves;    *)
(*   rejected: fetch resolves with a response of some other origin, the    *)
(*             route has not run;                                          *)
(*   lost:     fetch throws and the request was not delivered;             *)
(*   replylost: the route has run but fetch throws all the same.           *)
(* A resolved fetch leaves the loop, a thrown one sleeps and tries again   *)
(* while i < 3.  After the loop runRelay returns (worker.js:118) and its    *)
(* reader and buffer are dropped.  limit bounds the invocations started.   *)
(***************************************************************************)
Dispatch(i, out, limit) ==
    /\ inv[i].pc = "dispatch"
    /\ LET delivered == out \in {"accepted", "replylost"}
           resolved == out \in {"accepted", "rejected"}
           body == inv[i].trig[Len(inv[i].trig)]
           tries == inv[i].tries + 1
           returns == resolved \/ tries >= DISPATCH_TRIES
           r == [inv[i] EXCEPT
                   !.sent = Append(@, [body |-> body,
                                       delivered |-> delivered,
                                       resolved |-> resolved]),
                   !.tries = tries,
                   !.pc = IF returns THEN "done" ELSE "dispatch",
                   !.buffer = IF returns THEN <<>> ELSE @,
                   !.pos = IF returns THEN 0 ELSE @]
       IN  /\ delivered => Used < limit
           /\ inv' = IF delivered
                     THEN [inv EXCEPT ![i] = r,
                                      ![FreeSlot] = Resume(body, i)]
                     ELSE [inv EXCEPT ![i] = r]
    /\ UNCHANGED <<bot, env, totalSize, db, saved, composed, msgs, nextFileId>>

\* a catch block that also clears the checkpoint of the link
CatchDelete(i) ==
    /\ inv[i].pc = "catch"
    /\ msgs' = msgs \cup {[chatId |-> inv[i].chatId, by |-> i,
                           err |-> inv[i].err]}
    /\ inv' = [inv EXCEPT ![i].pc = "done", ![i].batch = <<>>,
                           ![i].buffer = <<>>, ![i].pos = 0]
    /\ db' = NoState
    /\ UNCHANGED <<bot, env, totalSize, saved, composed, nextFileId>>

\* worker.js:221-225  catch: sendMessage(error); finally: disconnect, which
\* ends the requests still in flight; runRelay returns
Catch(i) ==
    /\ inv[i].pc = "catch"
    /\ msgs' = msgs \cup {[chatId |-> inv[i].chatId, by |-> i,
                           err |-> inv[i].err]}
    /\ inv' = [inv EXCEPT ![i].pc = "done", ![i].batch = <<>>,
                           ![i].buffer = <<>>, ![i].pos = 0]
    /\ UNCHANGED <<bot, env, totalSize, db, saved, composed, nextFileId>>

Step(i) ==
    \/ \E ok \in BOOLEAN : Connect(i, ok)
    \/ GetState(i)
    \/ \E ok \in BOOLEAN : HeadPut(i, ok)
    \/ \E up \in BOOLEAN : RangeFetch(i, up)
    \/ CheckTimeout(i)
    \/ ReadValue(i)
    \/ ReadDone(i)
    \/ ReadFail(i)
    \/ \E j \in 1..PARALLEL_CHUNKS : UploadOk(i, j)
    \/ \E j \in 1..PARALLEL_CHUNKS : UploadFail(i, j)
    \/ \E editOk \in BOOLEAN : BatchDone(i, editOk)
    \/ BatchReject(i)
    \/ \E out \in {"ok", "fail", "before"} : Compose(i, out)
    \/ Delete(i)
    \/ Catch(i)

(***************************************************************************)
(* Spec: every continuation request is delivered at most once.             *)
(***************************************************************************)
Next ==
    \E i \in Slots :
        \/ Tick(i)
        \/ Step(i)
        \/ \E out \in {"accepted", "rejected", "lost"} :
              Dispatch(i, out, MaxInv)

Spec == Init /\ [][Next]_vars

(***************************************************************************)
(* SpecDup: a continuation request may also be delivered although its      *)
(* fetch throws, so that the retry of triggerNextWorker starts a second    *)
(* invocation with the same payload.                                       *)
(***************************************************************************)
InitDup == InitSize(DupSize)

NextDup ==
    \E i \in Slots :
        \/ Tick(i)
        \/ Step(i)
        \/ \E out \in {"accepted", "rejected", "lost", "replylost"} :
              Dispatch(i, out, DupInv)

SpecDup == InitDup /\ [][NextDup]_vars

(***************************************************************************)
(* SpecLive: the environment of a run in which nothing fails: the client   *)
(* connects, the source answers every request, every upload, progress      *)
(* edit and the compose request succeed and every continuation request is  *)
(* delivered exactly once.  The deadline may expire in any invocation      *)
(* that can still hand off within the bound MaxInv.  Every step of the     *)
(* program that is enabled is eventually taken.                            *)
(***************************************************************************)
TickLive(i) == Used < MaxInv /\ Tick(i)

\* the steps of runRelay when no request of the invocation fails
StepOk(i) ==
    \/ Connect(i, TRUE)
    \/ GetState(i)
    \/ HeadPut(i, TRUE)
    \/ RangeFetch(i, TRUE)
    \/ CheckTimeout(i)
    \/ ReadValue(i)
    \/ ReadDone(i)
    \/ \E j \in 1..PARALLEL_CHUNKS : UploadOk(i, j)
    \/ BatchDone(i, TRUE)
    \/ Compose(i, "ok")
    \/ Delete(i)
    \/ Catch(i)

StepLive(i) ==
    \/ StepOk(i)
    \/ Dispatch(i, "accepted", MaxInv)

ProgramLive == \E i \in Slots : StepLive(i)

NextLive == (\E i \in Slots : TickLive(i)) \/ ProgramLive

SpecLive == Init /\ [][NextLive]_vars /\ WF_vars(ProgramLive)

(***************************************************************************)
(* SpecTwin: nothing fails, but the fetch of a continuation request may    *)
(* throw after the request was delivered, so that two successors run side  *)
(* by side from the same nextPart.                                         *)
(***************************************************************************)
InitTwin == InitSize(TwinSize)

NextTwin ==
    \E i \in Slots :
        \/ Tick(i)
        \/ StepOk(i)
        \/ \E out \in {"accepted", "replylost"} : Dispatch(i, out, DupInv)

SpecTwin == InitTwin /\ [][NextTwin]_vars

(***************************************************************************)
(* SpecShared: the checkpoint of the link is shared with what else happens *)
(* to it while the job runs and nothing fails: a second /leech command for *)
(* the same link, and the expiry of the entry in the store.                *)
(***************************************************************************)
\* worker.js:34-45  a second /leech command for the same link: a new status
\* message and runRelay from part 0
Leech(limit) ==
    /\ Used < limit
    /\ \A s \in Slots : inv[s].msgId # MsgId + 1
    /\ inv' = [inv EXCEPT ![FreeSlot] = NewInv(0, ChatId, MsgId + 1, 0)]
    /\ UNCHANGED <<bot, env, totalSize, db, saved, composed, msgs, nextFileId>>

\* worker.js:94  expirationTtl: the store drops the entry of the link
Expire ==
    /\ db # NoState
    /\ db' = NoState
    /\ UNCHANGED <<bot, env, totalSize, inv, saved, composed, msgs, nextFileId>>

InitShared == InitSize(SharedSize)

NextShared ==
    \/ \E i \in Slots :
          \/ Tick(i)
          \/ StepOk(i)
          \/ Dispatch(i, "accepted", SharedInv)
    \/ Leech(SharedInv)
    \/ Expire

SpecShared == InitShared /\ [][NextShared]_vars

(***************************************************************************)
(* SpecRestart: the link is started again with a second /leech command     *)
(* while its first job runs; nothing fails and the store keeps its entry.  *)
(***************************************************************************)
InitRestart == InitSize(RestartSize)

NextRestart ==
    \/ \E i \in Slots :
          \/ Tick(i)
          \/ StepOk(i)
          \/ Dispatch(i, "accepted", RestartInv)
    \/ Leech(RestartInv)

SpecRestart == InitRestart /\ [][NextRestart]_vars

(***************************************************************************)
(* SpecParts: the transfer when the only requests that fail are part       *)
(* uploads: reads, cuts, uploads with their retry, the end of a batch by   *)
(* success or by rejection, the deadline and the hand-off to a successor.  *)
(***************************************************************************)
NextParts ==
    \E i \in Slots :
        \/ Tick(i)
        \/ StepOk(i)
        \/ \E j \in 1..PARALLEL_CHUNKS : UploadFail(i, j)
        \/ BatchReject(i)
        \/ Dispatch(i, "accepted", MaxInv)

SpecParts == Init /\ [][NextParts]_vars

(***************************************************************************)
(* SpecNoRange: the source ignores the Range header: it answers every GET  *)
(* with 200 and the whole object.  Nothing fails on the way; the compose   *)
(* request may be refused by the destination.                              *)
(***************************************************************************)
\* worker.js:100-111  the ranged GET answered with 200 and the body from
\* offset 0: response.ok holds and the reader starts at the first byte
RangeIgnored(i) ==
    /\ inv[i].pc = "range"
    /\ inv' = [inv EXCEPT ![i].pc = "loop", ![i].pos = 0,
                           ![i].byteStart = ByteStart(inv[i].startPart),
                           ![i].partIdx = inv[i].startPart,
                           ![i].buffer = <<>>]
    /\ UNCHANGED <<bot, env, totalSize, db, saved, composed, msgs, nextFileId>>

StepNoRange(i) ==
    \/ Connect(i, TRUE)
    \/ GetState(i)
    \/ HeadPut(i, TRUE)
    \/ RangeIgnored(i)
    \/ CheckTimeout(i)
    \/ ReadValue(i)
    \/ ReadDone(i)
    \/ \E j \in 1..PARALLEL_CHUNKS : UploadOk(i, j)
    \/ BatchDone(i, TRUE)
    \/ \E out \in {"ok", "fail"} : Compose(i, out)
    \/ Delete(i)
    \/ Catch(i)

InitNoRange == InitSize(NoRangeSize)

NextNoRange ==
    \E i \in Slots :
        \/ Tick(i)
        \/ StepNoRange(i)
        \/ Dispatch(i, "accepted", MaxInv)

SpecNoRange == InitNoRange /\ [][NextNoRange]_vars

(***************************************************************************)
(* SpecNoLength: the HEAD response of the source carries no                *)
(* Content-Length.  Nothing fails on the way; the compose request may be   *)
(* refused by the destination.                                             *)
(***************************************************************************)
\* worker.js:78-94  HEAD without content-length: parseInt("0"), so that
\* totalSize = 0 and totalParts = Math.ceil(0 / CHUNK_SIZE) = 0
HeadPutNoLength(i) ==
    /\ inv[i].pc = "head"
    /\ LET state == [fileId |-> nextFileId,
                     totalParts |-> Ceil(0, CHUNK_SIZE),
                     totalSize |-> 0]
       IN  /\ inv' = [inv EXCEPT ![i].pc = "range", ![i].state = state]
           /\ db' = state
           /\ nextFileId' = nextFileId + 1
    /\ UNCHANGED <<bot, env, totalSize, saved, composed, msgs>>

StepNoLength(i) ==
    \/ Connect(i, TRUE)
    \/ GetState(i)
    \/ HeadPutNoLength(i)
    \/ RangeFetch(i, TRUE)
    \/ CheckTimeout(i)
    \/ ReadValue(i)
    \/ ReadDone(i)
    \/ \E j \in 1..PARALLEL_CHUNKS : UploadOk(i, j)
    \/ BatchDone(i, TRUE)
    \/ \E out \in {"ok", "fail"} : Compose(i, out)
    \/ Delete(i)
    \/ Catch(i)

InitNoLength == InitSize(NoLengthSize)

NextNoLength ==
    \E i \in Slots :
        \/ Tick(i)
        \/ StepNoLength(i)
        \/ Dispatch(i, "accepted", MaxInv)

SpecNoLength == InitNoLength /\ [][NextNoLength]_vars

(***************************************************************************)
(* SpecCmd: the job starts with the /leech command, in a deployment whose  *)
(* bindings LEECH_DB and WORKER_URL may be missing.  Nothing fails.        *)
(***************************************************************************)
\* the answer of the command handler to a missing binding (worker.js:39)
ConfigError == [chatId |-> ChatId, by |-> 0, err |-> "Config Error"]

\* a command handler without the test of the bindings
CommandUnchecked(limit) ==
    /\ Used < limit
    /\ \A s \in Slots : inv[s].msgId # MsgId
    /\ inv' = [inv EXCEPT ![FreeSlot] = NewInv(0, ChatId, MsgId, 0)]
    /\ UNCHANGED <<bot, env, totalSize, db, saved, composed, msgs, nextFileId>>

\* worker.js:34-45  the /leech command: config test, status message,
\* ctx.waitUntil(runRelay(link, chatId, env, 0, msgId))
Command(limit) ==
    IF ~env.LEECH_DB \/ ~env.WORKER_URL
    THEN /\ msgs' = msgs \cup {ConfigError}
         /\ UNCHANGED <<bot, env, totalSize, db, inv, saved, composed, nextFileId>>
    ELSE /\ Used < limit
         /\ \A s \in Slots : inv[s].msgId # MsgId
         /\ inv' = [inv EXCEPT ![FreeSlot] = NewInv(0, ChatId, MsgId, 0)]
         /\ UNCHANGED <<bot, env, totalSize, db, saved, composed, msgs,
                        nextFileId>>

InitCmd ==
    /\ bot = NoBot
    /\ env \in [LEECH_DB : BOOLEAN, WORKER_URL : BOOLEAN, SELF : {TRUE}]
    /\ totalSize \in 1..CmdSize
    /\ db = NoState
    /\ inv = [s \in Slots |-> IdleInv]
    /\ saved = {}
    /\ composed = {}
    /\ msgs = {}
    /\ nextFileId = 1

NextCmd ==
    \/ Command(MaxInv)
    \/ \E i \in Slots :
          \/ Tick(i)
          \/ StepOk(i)
          \/ Dispatch(i, "accepted", MaxInv)

SpecCmd == InitCmd /\ [][NextCmd]_vars

(***************************************************************************)
(* SpecBurst: the Short Burst variant of the engine (src/unnamed/part_000, *)
(* lines 1-229).  Setup, ranged GET, compose and delete are those of       *)
(* runRelay above; the loop uploads one part at a time, counts the parts   *)
(* of the run in chunksProcessed and hands off when the count has reached  *)
(* CHUNKS_PER_RUN.  There is no clock, and nothing fails but the           *)
(* continuation request.                                                   *)
(***************************************************************************)
\* part_000:13
CHUNKS_PER_RUN == 10

\* part_000:128-146  the inner while up to its next await: cut one chunk
\* and start its SaveBigFilePart, or leave the loops, or go back to the top
BurstAdvance(r, buf, done) ==
    IF HasWork(buf, done)
    THEN LET currentChunkSize == Min(CHUNK_SIZE, Len(buf))
             chunk == SliceTo(buf, currentChunkSize)
             p == [part |-> r.partIdx, bytes |-> chunk, st |-> "try1",
                   n |-> 1, late |-> r.late,
                   req |-> SavePart(r.partIdx, chunk)]
         IN  [r EXCEPT !.pc = "await_part", !.done = done, !.batch = <<p>>,
                       !.buffer = SliceFrom(buf, currentChunkSize)]
    ELSE IF done /\ Len(buf) = 0
         THEN [r EXCEPT !.pc = "finish", !.buffer = buf, !.done = done,
                        !.batch = <<>>]
         ELSE [r EXCEPT !.pc = "loop", !.buffer = buf, !.done = done,
                        !.batch = <<>>]

\* part_000:110-118  the count of the run is tested at the top of the outer
\* loop, then reader.read() is started
BurstCheck(i) ==
    /\ inv[i].pc = "loop"
    /\ inv' = IF inv[i].chunksProcessed >= CHUNKS_PER_RUN
              THEN [inv EXCEPT ![i].pc = "burst_dispatch",
                               ![i].trig = Append(@, Payload(inv[i]))]
              ELSE [inv EXCEPT ![i].pc = "read"]
    /\ UNCHANGED <<bot, env, totalSize, db, saved, composed, msgs, nextFileId>>

\* part_000:118-127  reader.read() resolves with a value
BurstReadValue(i) ==
    /\ inv[i].pc = "read"
    /\ inv[i].pos < totalSize
    /\ \E n \in 1..Min(BurstRead, totalSize - inv[i].pos) :
          LET value == SliceTo(SourceFrom(inv[i].pos, totalSize), n)
              r == [inv[i] EXCEPT !.pos = inv[i].pos + n]
          IN  inv' = [inv EXCEPT ![i] = BurstAdvance(r, inv[i].buffer \o value,
                                                     FALSE)]
    /\ UNCHANGED <<bot, env, totalSize, db, saved, composed, msgs, nextFileId>>

\* part_000:118-119, 127  reader.read() resolves with done
BurstReadDone(i) ==
    /\ inv[i].pc = "read"
    /\ inv[i].pos = totalSize
    /\ inv' = [inv EXCEPT ![i] = BurstAdvance(inv[i], inv[i].buffer, TRUE)]
    /\ UNCHANGED <<bot, env, totalSize, db, saved, composed, msgs, nextFileId>>

\* part_000:135-146  the SaveBigFilePart resolves: partIdx++,
\* chunksProcessed++, and the inner while goes on
BurstUploadOk(i) ==
    /\ inv[i].pc = "await_part"
    /\ saved' = saved \cup {[fileId |-> inv[i].state.fileId,
                             part |-> inv[i].batch[1].req.filePart,
                             bytes |-> inv[i].batch[1].req.bytes,
                             by |-> i]}
    /\ LET r == [inv[i] EXCEPT !.partIdx = @ + 1, !.chunksProcessed = @ + 1]
       IN  inv' = [inv EXCEPT ![i] = BurstAdvance(r, inv[i].buffer,
                                                  inv[i].done)]
    /\ UNCHANGED <<bot, env, totalSize, db, composed, msgs, nextFileId>>

\* part_000:113-115, 199-207  triggerNextWorker makes one request and
\* swallows a thrown fetch; then editProgress, and runRelay returns
BurstDispatch(i, out, limit) ==
    /\ inv[i].pc = "burst_dispatch"
    /\ LET delivered == out = "accepted"
           body == inv[i].trig[Len(inv[i].trig)]
           r == [inv[i] EXCEPT
                   !.sent = Append(@, [body |-> body,
                                       delivered |-> delivered,
                                       resolved |-> delivered]),
                   !.tries = 1, !.pc = "done",
                   !.buffer = <<>>, !.pos = 0]
       IN  /\ delivered => Used < limit
           /\ inv' = IF delivered
                     THEN [inv EXCEPT ![i] = r,
                                      ![FreeSlot] = Resume(body, i)]
                     ELSE [inv EXCEPT ![i] = r]
    /\ UNCHANGED <<bot, env, totalSize, db, saved, composed, msgs, nextFileId>>

StepBurst(i) ==
    \/ Connect(i, TRUE)
    \/ GetState(i)
    \/ HeadPut(i, TRUE)
    \/ RangeFetch(i, TRUE)
    \/ BurstCheck(i)
    \/ BurstReadValue(i)
    \/ BurstReadDone(i)
    \/ BurstUploadOk(i)
    \/ Compose(i, "ok")
    \/ Delete(i)
    \/ Catch(i)

InitBurst == InitSize(BurstSize)

NextBurst ==
    \E i \in Slots :
        \/ StepBurst(i)
        \/ \E out \in {"accepted", "lost"} : BurstDispatch(i, out, BurstInv)

SpecBurst == InitBurst /\ [][NextBurst]_vars

(***************************************************************************)
(* SpecStable: the Final Stable variant (src/unnamed/part_004, lines       *)
(* 804-1087).  The loop is that of the Short Burst variant with a deadline *)
(* check in front of the count check; the continuation goes through the    *)
(* service binding env.SELF, in one attempt whose result is returned.      *)
(***************************************************************************)
\* part_004:959  the text the status message is edited to
RelayFailed(i) == [chatId |-> inv[i].chatId, by |-> i, err |-> "Relay Failed"]

\* part_004:947-964  time check and burst check at the top of the outer
\* loop, then reader.read() is started
StableCheck(i) ==
    /\ inv[i].pc = "loop"
    /\ inv' = IF inv[i].late
              THEN [inv EXCEPT ![i].pc = "relay_time",
                               ![i].trig = Append(@, Payload(inv[i]))]
              ELSE IF inv[i].chunksProcessed >= CHUNKS_PER_RUN
                   THEN [inv EXCEPT ![i].pc = "relay_burst",
                                    ![i].trig = Append(@, Payload(inv[i]))]
                   ELSE [inv EXCEPT ![i].pc = "read"]
    /\ UNCHANGED <<bot, env, totalSize, db, saved, composed, msgs, nextFileId>>

\* part_004:964-979  reader.read() resolves with a value
StableReadValue(i) ==
    /\ inv[i].pc = "read"
    /\ inv[i].pos < totalSize
    /\ \E n \in 1..Min(StableRead, totalSize - inv[i].pos) :
          LET value == SliceTo(SourceFrom(inv[i].pos, totalSize), n)
              r == [inv[i] EXCEPT !.pos = inv[i].pos + n]
          IN  inv' = [inv EXCEPT ![i] = BurstAdvance(r, inv[i].buffer \o value,
                                                     FALSE)]
    /\ UNCHANGED <<bot, env, totalSize, db, saved, composed, msgs, nextFileId>>

\* part_004:947-961, 1049-1066  triggerNextWorker: no request without the
\* SELF binding; else one request, ok only when the route answered ok.
\* The caller looks at the result on the burst path only.
StableRelay(i, out, limit) ==
    /\ inv[i].pc \in {"relay_time", "relay_burst"}
    /\ LET delivered == env.SELF /\ out = "accepted"
           body == inv[i].trig[Len(inv[i].trig)]
           request == [body |-> body, delivered |-> delivered,
                       resolved |-> out \in {"accepted", "rejected"}]
           r == [inv[i] EXCEPT
                   !.sent = IF env.SELF THEN Append(@, request) ELSE @,
                   !.tries = IF env.SELF THEN 1 ELSE 0,
                   !.pc = "done", !.buffer = <<>>, !.pos = 0]
       IN  /\ delivered => Used < limit
           /\ inv' = IF delivered
                     THEN [inv EXCEPT ![i] = r,
                                      ![FreeSlot] = Resume(body, i)]
                     ELSE [inv EXCEPT ![i] = r]
           /\ msgs' = IF inv[i].pc = "relay_burst" /\ ~delivered
                      THEN msgs \cup {RelayFailed(i)}
                      ELSE msgs
    /\ UNCHANGED <<bot, env, totalSize, db, saved, composed, nextFileId>>

StepStable(i) ==
    \/ Connect(i, TRUE)
    \/ GetState(i)
    \/ HeadPut(i, TRUE)
    \/ RangeFetch(i, TRUE)
    \/ StableCheck(i)
    \/ StableReadValue(i)
    \/ BurstReadDone(i)
    \/ BurstUploadOk(i)
    \/ Compose(i, "ok")
    \/ Delete(i)
    \/ Catch(i)

InitStable ==
    /\ bot = NoBot
    /\ env \in {[FullEnv EXCEPT !.SELF = b] : b \in BOOLEAN}
    /\ totalSize \in 1..StableSize
    /\ db = NoState
    /\ inv = [s \in Slots |-> IF s = 1 THEN NewInv(0, ChatId, MsgId, 0)
                                       ELSE IdleInv]
    /\ saved = {}
    /\ composed = {}
    /\ msgs = {}
    /\ nextFileId = 1

NextStable ==
    \E i \in Slots :
        \/ Tick(i)
        \/ StepStable(i)
        \/ \E out \in {"accepted", "rejected", "thrown"} :
              StableRelay(i, out, StableInv)

SpecStable == InitStable /\ [][NextStable]_vars

(***************************************************************************)
(* SpecDirect: the direct-stream bot (src/Worker.js).  processLeech        *)
(* fetches the source, tests the response, and pipes the body between a    *)
(* multipart header and footer into the body of one sendDocument request.  *)
(* The pump (Worker.js:119-137) runs beside processLeech.  Messages to the *)
(* chat are delivered; the source, the stream and the upload may fail.     *)
(*                                                                         *)
(* A string is the sequence of the UTF-8 widths of its characters; the     *)
(* bytes written to the stream are source offsets for the body, HeaderByte *)
(* and FooterByte for the two texts.  The 50 MB limit is scaled.           *)
(***************************************************************************)
\* the relay machine stays where it is
relay == <<env, totalSize, db, inv, saved, composed, msgs, nextFileId>>

\* Worker.js:89  52428800, scaled
DIRECT_LIMIT == 4

HeaderByte == 0 - 1
FooterByte == 0 - 2

\* headerPart for an ASCII filename and for one with a two-byte character
\* (Worker.js:95, 101-106); footerPart (Worker.js:108)
HeaderParts == {<<1, 1>>, <<1, 2>>}
FooterPart == <<1>>

\* str.length, the number of UTF-16 units of a text of the Basic Plane
StringLength(str) == Len(str)

\* new Blob([str]).size: the number of UTF-8 bytes
RECURSIVE BlobSize(_)
BlobSize(str) == IF str = <<>> THEN 0 ELSE Head(str) + BlobSize(Tail(str))

\* encoder.encode(str): the UTF-8 bytes
RECURSIVE Encode(_, _)
Encode(str, byte) ==
    IF str = <<>>
    THEN <<>>
    ELSE [k \in 1..Head(str) |-> byte] \o Encode(Tail(str), byte)

\* processLeech(fileUrl, chatId, botToken) has just been called; ok and
\* hasLength are sourceResponse.ok and the presence of Content-Length
NewDirect(ok, hasLength, headerPart) ==
    [pc |-> "fetch", srcOk |-> ok, hasLength |-> hasLength,
     headerPart |-> headerPart, declared |-> 0, uploadStarted |-> FALSE,
     stream |-> "none", pump |-> "idle", pos |-> 0, value |-> <<>>,
     done |-> FALSE, pumpFailed |-> FALSE, written |-> <<>>,
     notes |-> <<>>, err |-> ""]

\* a processLeech without the test of the declared size
DirectStartNoLimit ==
    /\ bot.pc = "fetch"
    /\ bot' =
         IF ~bot.srcOk
         THEN [bot EXCEPT !.pc = "catch", !.err = "Source URL returned error"]
         ELSE IF ~bot.hasLength
         THEN [bot EXCEPT !.pc = "done", !.notes = Append(@, "no size")]
         ELSE [bot EXCEPT !.pc = "upload", !.uploadStarted = TRUE,
                          !.declared = BlobSize(bot.headerPart) + totalSize
                                         + BlobSize(FooterPart),
                          !.stream = "open", !.pump = "header"]
    /\ UNCHANGED relay

\* Worker.js:74-149  response of the source, the three tests, the
\* multipart texts and totalSize, start of the pump and of the upload
DirectStart ==
    /\ bot.pc = "fetch"
    /\ bot' =
         IF ~bot.srcOk
         THEN [bot EXCEPT !.pc = "catch", !.err = "Source URL returned error"]
         ELSE IF ~bot.hasLength
         THEN [bot EXCEPT !.pc = "done", !.notes = Append(@, "no size")]
         ELSE IF totalSize > DIRECT_LIMIT
         THEN [bot EXCEPT !.pc = "done", !.notes = Append(@, "too big")]
         ELSE [bot EXCEPT !.pc = "upload", !.uploadStarted = TRUE,
                          !.declared = BlobSize(bot.headerPart) + totalSize
                                         + BlobSize(FooterPart),
                          !.stream = "open", !.pump = "header"]
    /\ UNCHANGED relay

\* Worker.js:121  writer.write(encoder.encode(headerPart))
PumpHeader ==
    /\ bot.pump = "header"
    /\ bot' = [bot EXCEPT !.written = @ \o Encode(bot.headerPart, HeaderByte),
                          !.pump = "read"]
    /\ UNCHANGED relay

\* Worker.js:126-127  reader.read() resolves with a value, or with done
PumpRead ==
    /\ bot.pump = "read"
    /\ \/ /\ bot.pos < totalSize
          /\ \E n \in 1..Min(DirectRead, totalSize - bot.pos) :
                bot' = [bot EXCEPT
                          !.value = SliceTo(SourceFrom(bot.pos, totalSize), n),
                          !.pos = @ + n, !.pump = "write"]
       \/ /\ bot.pos = totalSize
          /\ bot' = [bot EXCEPT !.done = TRUE, !.pump = "footer"]
    /\ UNCHANGED relay

\* Worker.js:128  writer.write(value)
PumpWrite ==
    /\ bot.pump = "write"
    /\ bot' = [bot EXCEPT !.written = @ \o bot.value, !.value = <<>>,
                          !.pump = "read"]
    /\ UNCHANGED relay

\* Worker.js:131  writer.write(encoder.encode(footerPart))
PumpFooter ==
    /\ bot.pump = "footer"
    /\ bot' = [bot EXCEPT !.written = @ \o Encode(FooterPart, FooterByte),
                          !.pump = "close"]
    /\ UNCHANGED relay

\* Worker.js:132  writer.close()
PumpClose ==
    /\ bot.pump = "close"
    /\ bot' = [bot EXCEPT !.stream = "closed", !.pump = "end"]
    /\ UNCHANGED relay

\* Worker.js:133-136  a read, a write or the close rejects: writer.abort
PumpFail ==
    /\ bot.pump \in {"header", "read", "write", "footer", "close"}
    /\ bot' = [bot EXCEPT !.stream = "aborted", !.pump = "end",
                          !.pumpFailed = TRUE, !.value = <<>>]
    /\ UNCHANGED relay

\* Worker.js:142-154  the sendDocument request ends: its body was closed
\* and Telegram answers ok, or Telegram refuses, or the request fails
\* (always so when the body is aborted)
DirectResult(ok) ==
    /\ bot.pc = "upload"
    /\ ok => bot.stream = "closed"
    /\ bot' = IF ok THEN [bot EXCEPT !.pc = "done"]
                    ELSE [bot EXCEPT !.pc = "catch", !.err = "upload"]
    /\ UNCHANGED relay

\* Worker.js:156-158  catch: sendMessage with the error
DirectCatch ==
    /\ bot.pc = "catch"
    /\ bot' = [bot EXCEPT !.pc = "done", !.notes = Append(@, bot.err)]
    /\ UNCHANGED relay

InitDirect ==
    /\ bot \in {NewDirect(ok, hasLength, headerPart) :
                   ok \in BOOLEAN, hasLength \in BOOLEAN,
                   headerPart \in HeaderParts}
    /\ env = FullEnv
    /\ totalSize \in 1..DirectSize
    /\ db = NoState
    /\ inv = [s \in Slots |-> IdleInv]
    /\ saved = {}
    /\ composed = {}
    /\ msgs = {}
    /\ nextFileId = 1

NextDirect ==
    \/ DirectStart
    \/ PumpHeader
    \/ PumpRead
    \/ PumpWrite
    \/ PumpFooter
    \/ PumpClose
    \/ PumpFail
    \/ \E ok \in BOOLEAN : DirectResult(ok)
    \/ DirectCatch

SpecDirect == InitDirect /\ [][NextDirect]_vars

(***************************************************************************)
(* SpecHybrid: the hybrid bot (src/unnamed/part_004, lines 611-802).       *)
(* handleRequest resolves social links through Cobalt, probes the size     *)
(* with a HEAD request, and either signals GitHub or streams the object    *)
(* to Telegram itself.  env holds GITHUB_TOKEN and GITHUB_REPO here.       *)
(***************************************************************************)
\* part_004:686  52428800, scaled
HYBRID_LIMIT == 4

\* the answers of the HEAD probe (part_004:679-683): Content-Length
\* given, ok without Content-Length, not ok, fetch throws
HeadAnswers == {"length", "nolength", "notok", "throws"}

\* handleRequest(userUrl, chatId, env) has just been called
NewHybrid(isSocial) ==
    [pc |-> IF isSocial THEN "cobalt" ELSE "head", isSocial |-> isSocial,
     head |-> "", size |-> 0, dispatches |-> 0, streamed |-> FALSE,
     notes |-> <<>>, err |-> ""]

\* part_004:703-706  triggerGitHub is entered: it throws without
\* GITHUB_TOKEN or GITHUB_REPO
EnterGitHub(b) ==
    IF ~env.GITHUB_TOKEN \/ ~env.GITHUB_REPO
    THEN [b EXCEPT !.pc = "catch", !.err = "Missing GITHUB_TOKEN or GITHUB_REPO"]
    ELSE [b EXCEPT !.pc = "github"]

\* part_004:662-676  the social link is resolved by Cobalt or not
HybridResolve(found) ==
    /\ bot.pc = "cobalt"
    /\ bot' = IF found
              THEN [bot EXCEPT !.pc = "head"]
              ELSE IF env.GITHUB_TOKEN
                   THEN EnterGitHub(bot)
                   ELSE [bot EXCEPT !.pc = "catch",
                                    !.err = "Link not supported by Cobalt."]
    /\ UNCHANGED relay

\* part_004:679-683  size = 0 unless the HEAD answer is ok and carries a
\* Content-Length
HybridProbe(answer) ==
    /\ bot.pc = "head"
    /\ bot' = [bot EXCEPT !.pc = "decide", !.head = answer,
                          !.size = IF answer = "length" THEN totalSize ELSE 0]
    /\ UNCHANGED relay

\* part_004:686-695  the decision on size
HybridDecide ==
    /\ bot.pc = "decide"
    /\ bot' = IF bot.size > HYBRID_LIMIT
              THEN IF env.GITHUB_TOKEN
                   THEN EnterGitHub(bot)
                   ELSE [bot EXCEPT !.pc = "catch", !.err = "File too big"]
              ELSE [bot EXCEPT !.pc = "stream", !.streamed = TRUE]
    /\ UNCHANGED relay

\* part_004:708-726  the repository_dispatch request and the message
\* about its answer
HybridGitHub(accepted) ==
    /\ bot.pc = "github"
    /\ bot' = [bot EXCEPT !.pc = "done", !.dispatches = @ + 1,
                          !.notes = IF accepted THEN @
                                    ELSE Append(@, "GitHub Refused")]
    /\ UNCHANGED relay

\* part_004:730-774  streamToTelegram ends: uploaded, or an error thrown on
HybridStream(ok) ==
    /\ bot.pc = "stream"
    /\ bot' = IF ok THEN [bot EXCEPT !.pc = "done"]
                    ELSE [bot EXCEPT !.pc = "catch", !.err = "stream"]
    /\ UNCHANGED relay

\* part_004:697-699  catch: sendMessage with the error
HybridCatch ==
    /\ bot.pc = "catch"
    /\ bot' = [bot EXCEPT !.pc = "done", !.notes = Append(@, bot.err)]
    /\ UNCHANGED relay

InitHybrid ==
    /\ bot \in {NewHybrid(isSocial) : isSocial \in BOOLEAN}
    /\ env \in [GITHUB_TOKEN : BOOLEAN, GITHUB_REPO : BOOLEAN]
    /\ totalSize \in 1..HybridSize
    /\ db = NoState
    /\ inv = [s \in Slots |-> IdleInv]
    /\ saved = {}
    /\ composed = {}
    /\ msgs = {}
    /\ nextFileId = 1

NextHybrid ==
    \/ \E found \in BOOLEAN : HybridResolve(found)
    \/ \E answer \in HeadAnswers : HybridProbe(answer)
    \/ HybridDecide
    \/ \E accepted \in BOOLEAN : HybridGitHub(accepted)
    \/ \E ok \in BOOLEAN : HybridStream(ok)
    \/ HybridCatch

SpecHybrid == InitHybrid /\ [][NextHybrid]_vars

(***************************************************************************)
(* Properties.                                                             *)
(***************************************************************************)

\* the source bytes index p holds in an uninterrupted, aligned transfer
SourceSlice(p) ==
    SliceTo(SourceFrom(p * CHUNK_SIZE, totalSize),
            Min(CHUNK_SIZE, totalSize - p * CHUNK_SIZE))

SavedBy(i) == {s \in saved : s.by = i}
SavedUnder(f) == {s \in saved : s.fileId = f}

RECURSIVE SumLen(_)
SumLen(S) == IF S = {} THEN 0
             ELSE LET s == CHOOSE x \in S : TRUE
                  IN  Len(s.bytes) + SumLen(S \ {s})

Pending(p) == p.st \in {"try1", "try2"}
Succeeded(b) == \A j \in 1..Len(b) : b[j].st = "ok"
Rejected(b) == \E j \in 1..Len(b) : b[j].st = "failed"
InFlight(i) == Cardinality({j \in 1..Len(inv[i].batch) : Pending(inv[i].batch[j])})

Ranged(i) == inv[i].pc \in {"loop", "read", "await_batch", "finish", "delete"}

\* C1: a job finished by a resumed invocation holds, under every index of
\* [0, totalParts), exactly the source bytes of that index and nothing
\* else, as an uninterrupted transfer would; and the offset a resumed
\* invocation requests, startPart * CHUNK_SIZE, equals the total length of
\* the parts below startPart already uploaded.
C1_ResumeEquivalence ==
    /\ \A c \in composed :
          (c.ok /\ inv[c.by].startPart > 0) =>
             /\ \A p \in 0..(Ceil(totalSize, CHUNK_SIZE) - 1) :
                   {s.bytes : s \in {t \in SavedUnder(c.fileId) : t.part = p}}
                      = {SourceSlice(p)}
             /\ \A s \in SavedUnder(c.fileId) :
                   s.part < Ceil(totalSize, CHUNK_SIZE)
    /\ \A i \in Slots :
          (inv[i].startPart > 0 /\ Ranged(i)) =>
             /\ inv[i].byteStart = inv[i].startPart * CHUNK_SIZE
             /\ inv[i].byteStart =
                   SumLen({s \in SavedUnder(inv[i].state.fileId) :
                              s.part < inv[i].startPart})

\* C2: every part handed to SaveBigFilePart has length CHUNK_SIZE, except
\* the last part of the object, which is cut only after the reader has
\* reported done; no shorter part is cut while the stream is open.
C2_OnlyFinalPartShort ==
    \A i \in Slots : \A j \in 1..Len(inv[i].batch) :
        \/ Len(inv[i].batch[j].bytes) = CHUNK_SIZE
        \/ /\ inv[i].done
           /\ j = Len(inv[i].batch)
           /\ inv[i].buffer = <<>>

\* C3: totalParts is ceil(totalSize / CHUNK_SIZE), and a finished job has
\* uploaded exactly totalParts parts whose lengths add up to totalSize.
C3_PartCountAndSum ==
    /\ \A i \in Slots :
          inv[i].state # NoState =>
             inv[i].state.totalParts = Ceil(totalSize, CHUNK_SIZE)
    /\ \A c \in composed :
          c.ok => /\ Cardinality(SavedUnder(c.fileId)) = c.parts
                  /\ SumLen(SavedUnder(c.fileId)) = totalSize

\* C4: the indices uploaded over all invocations are exactly
\* [0, totalParts): none at or above totalParts is ever uploaded, a
\* finished job has every index below it, and each successor invocation
\* starts right after the last index its predecessor completed.
C4_ContiguousIndices ==
    /\ \A s \in saved : s.part < Ceil(totalSize, CHUNK_SIZE)
    /\ \A c \in composed :
          c.ok => {s.part : s \in SavedUnder(c.fileId)}
                     = 0..(Ceil(totalSize, CHUNK_SIZE) - 1)
    /\ \A i \in Slots :
          inv[i].parent # 0 =>
             inv[i].startPart = inv[inv[i].parent].startPart
                                  + Cardinality(SavedBy(inv[i].parent))

\* C5: an invocation that finds the budget exceeded calls triggerNextWorker
\* exactly once; the call and every request it sends carry nextPart =
\* startPart + the number of parts this invocation uploaded, with the chat
\* and status message of the command; nothing is in flight then and the
\* invocation uploads nothing afterwards.
C5_OneDispatchWithCursor ==
    \A i \in Slots :
        inv[i].trig # <<>> =>
           /\ Len(inv[i].trig) = 1
           /\ inv[i].trig[1] =
                 [chatId |-> ChatId,
                  nextPart |-> inv[i].startPart + Cardinality(SavedBy(i)),
                  msgId |-> MsgId]
           /\ \A k \in 1..Len(inv[i].sent) : inv[i].sent[k].body = inv[i].trig[1]
           /\ Len(inv[i].sent) <= DISPATCH_TRIES
           /\ inv[i].batch = <<>>
           /\ inv[i].pc \in {"dispatch", "done"}

\* witness of C5: a hand-off after k >= 1 of more than k parts, delivered
C5_Witness ==
    \E i \in Slots :
        /\ inv[i].pc = "done"
        /\ inv[i].trig # <<>>
        /\ inv[i].trig[1].nextPart >= 1
        /\ inv[i].trig[1].nextPart < inv[i].state.totalParts
        /\ \E k \in 1..Len(inv[i].sent) : inv[i].sent[k].delivered
        /\ \E s \in Slots : inv[s].parent = i /\ inv[s].startPart >= 1

\* C6 as stated: no SaveBigFilePart is started at a moment when the
\* elapsed time already exceeds MAX_RUNTIME.
C6_NoUploadPastBudget ==
    \A i \in Slots : \A j \in 1..Len(inv[i].batch) : ~inv[i].batch[j].late

\* C6 amended: the clock is compared with MAX_RUNTIME at the top of each
\* outer loop iteration only: a source read is started only at a moment
\* when the budget is not exceeded, and an invocation that finds it
\* exceeded reads nothing more and starts no upload.
C6_ReadOnlyWithinBudget ==
    [][\A i \in Slots :
          /\ (inv[i].pc # "read" /\ inv'[i].pc = "read") => ~inv[i].late
          /\ (inv[i].pc = "loop" /\ inv[i].late) =>
                /\ inv'[i].pc \in {"loop", "dispatch"}
                /\ inv'[i].batch = <<>>]_vars

\* witness of C6: the check stops an invocation that has bytes left to read
C6_Witness ==
    \E i \in Slots :
        /\ inv[i].pc = "dispatch"
        /\ inv[i].late
        /\ inv[i].pos < totalSize
        /\ inv[i].partIdx > inv[i].startPart

\* C7: when nothing fails and every continuation is delivered exactly
\* once, the job eventually issues the compose request and deletes its
\* checkpoint.
C7_EventuallyDone ==
    <>(/\ \E c \in composed : c.ok
       /\ db = NoState)

\* C8: a part is attempted at most twice in an invocation; the retry
\* follows the first failure at once and carries the same index and bytes;
\* once a retry has failed the invocation starts no further batch, makes
\* no continuation dispatch and ends by reporting the error.
C8_RetryOnceThenFatal ==
    /\ [](\A i \in Slots :
            /\ \A j \in 1..Len(inv[i].batch) :
                  LET p == inv[i].batch[j]
                  IN  /\ p.n <= 2
                      /\ p.req = SavePart(p.part, p.bytes)
                      /\ p.st = "try1" => p.n = 1
                      /\ p.st \in {"try2", "failed"} => p.n = 2
            /\ Rejected(inv[i].batch) =>
                  /\ inv[i].pc \in {"await_batch", "catch"}
                  /\ inv[i].trig = <<>>
                  /\ inv[i].pc = "catch" => inv[i].err = "part"
            /\ inv[i].err = "part" =>
                  /\ inv[i].pc \in {"catch", "done"}
                  /\ inv[i].trig = <<>>
                  /\ inv[i].pc = "done" =>
                        [chatId |-> ChatId, by |-> i, err |-> "part"] \in msgs)
    /\ [][\A i \in Slots :
            Rejected(inv[i].batch) =>
               /\ inv'[i].partIdx = inv[i].partIdx
               /\ inv'[i].pc \in {"await_batch", "catch", "done"}
               /\ inv'[i].pc # "done" =>
                     /\ Len(inv'[i].batch) = Len(inv[i].batch)
                     /\ \A j \in 1..Len(inv[i].batch) :
                           inv'[i].batch[j].part = inv[i].batch[j].part]_vars

\* witness of C8: one part of a batch succeeded on its retry, another
\* failed twice and the invocation is about to report it
C8_Witness ==
    \E i \in Slots :
        /\ inv[i].pc = "catch"
        /\ inv[i].err = "part"
        /\ \E j \in 1..Len(inv[i].batch) :
              inv[i].batch[j].st = "failed" /\ inv[i].batch[j].n = 2
        /\ \E j \in 1..Len(inv[i].batch) :
              inv[i].batch[j].st = "ok" /\ inv[i].batch[j].n = 2

\* an invocation has failed fatally
Failed(i) == inv[i].err # ""

\* a part upload failed twice, or the source read or range request failed
FailedFatally(i) ==
    inv[i].err \in {"part", "read", "Stream Error: 416", "Stream Error: 5xx"}

\* C9: once an invocation of the job has failed fatally, no compose
\* request is issued for the fileId it worked on.
C9_NoComposeAfterFatal ==
    [][\A i \in Slots :
          FailedFatally(i) =>
             \A c \in composed' \ composed : c.fileId # inv[i].state.fileId]_vars

\* C10 as stated: at most PARALLEL_CHUNKS uploads are in flight, and
\* outside the wait for the batch (next batch, deadline check, dispatch,
\* finalize, leaving the loop) no upload of the batch is unresolved.
C10_BatchBarrier ==
    \A i \in Slots :
        /\ InFlight(i) <= PARALLEL_CHUNKS
        /\ inv[i].pc # "await_batch" => InFlight(i) = 0

\* C10 amended: at most PARALLEL_CHUNKS uploads are in flight; the next
\* batch, the deadline check, the dispatch and the finalizer are reached
\* only after every upload of the batch has succeeded; the only other way
\* out of the wait is the error path, taken as soon as one upload has
\* failed after its retry, with the rest of the batch possibly in flight.
C10_BarrierOnSuccess ==
    /\ [](\A i \in Slots :
            /\ Len(inv[i].batch) <= PARALLEL_CHUNKS
            /\ InFlight(i) > 0 =>
                  \/ inv[i].pc = "await_batch"
                  \/ inv[i].pc = "catch" /\ Failed(i))
    /\ [][\A i \in Slots :
            (inv[i].pc = "await_batch" /\ inv'[i].pc # "await_batch") =>
               \/ /\ Succeeded(inv[i].batch)
                  /\ inv'[i].pc \in {"loop", "finish", "catch"}
               \/ /\ Rejected(inv[i].batch)
                  /\ inv'[i].pc = "catch"]_vars
    /\ [][\A i \in Slots :
            (inv[i].pc = "await_batch" /\ inv'[i].partIdx # inv[i].partIdx) =>
               Succeeded(inv[i].batch)]_vars

\* witness of C10: a full batch has resolved with bytes left for the next
C10_Witness ==
    \E i \in Slots :
        /\ inv[i].pc = "await_batch"
        /\ Len(inv[i].batch) = PARALLEL_CHUNKS
        /\ Succeeded(inv[i].batch)
        /\ Len(inv[i].buffer) > 0

\* C11: at most one compose (SendMedia) request is issued for a job, also
\* when a continuation request is delivered twice and two invocations of
\* the job run side by side.
C11_AtMostOneCompose ==
    \A c \in composed : \A d \in composed :
        c.fileId = d.fileId => c.by = d.by

\* C12: two uploads under the same fileId and the same part index carry the
\* same bytes, whichever invocations sent them and whatever the sizes of
\* the reads they received.
C12_SameIndexSameBytes ==
    \A s \in saved : \A t \in saved :
        (s.fileId = t.fileId /\ s.part = t.part) => s.bytes = t.bytes

\* the fileIds of the SaveBigFilePart and SendMedia requests sent by the
\* invocations of the job whose status message is m
FileIdsOfJob(m) ==
    {s.fileId : s \in {t \in saved : inv[t.by].msgId = m}}
       \cup {c.fileId : c \in {d \in composed : inv[d.by].msgId = m}}

\* C13: all SaveBigFilePart and SendMedia requests of one job carry one
\* fileId, in every invocation of the job, whatever happens to the
\* checkpoint in between.
C13_OneFileIdPerJob ==
    \A m \in {MsgId, MsgId + 1} : Cardinality(FileIdsOfJob(m)) <= 1

\* C14: a resumed invocation (startPart > 0) only reads the checkpoint: no
\* step of it performs LEECH_DB.put, draws a new fileId or replaces the
\* state (fileId, totalParts, totalSize) it works with; the only change it
\* makes to the store is the delete after its compose.
C14_ResumedOnlyReads ==
    [][\A i \in Slots :
          (inv[i].startPart > 0 /\ inv'[i] # inv[i]) =>
             /\ nextFileId' = nextFileId
             /\ db' \in {db, NoState}
             /\ ~(inv[i].pc = "head" /\ inv'[i].pc = "range")
             /\ inv[i].pc \notin {"connect", "getstate", "head"} =>
                   inv'[i].state = inv[i].state]_vars

\* the error message of invocation i has been sent to the chat
Reported(i) == [chatId |-> inv[i].chatId, by |-> i, err |-> inv[i].err] \in msgs

\* C15: the checkpoint is deleted only by an invocation whose SendMedia
\* has succeeded, right after it; a step of an invocation that hands off
\* at the deadline or that fails leaves the checkpoint as it is.
C15_DeleteOnlyAfterCompose ==
    [][/\ (db # NoState /\ db' = NoState) =>
             \E i \in Slots :
                 /\ inv[i].pc = "delete"
                 /\ inv'[i].pc = "done"
                 /\ \E c \in composed :
                        c.by = i /\ c.ok /\ c.fileId = db.fileId
       /\ \A i \in Slots :
             (inv'[i] # inv[i] /\ ( \/ inv[i].pc \in {"dispatch", "catch"}
                                   \/ inv'[i].pc \in {"dispatch", "catch"}
                                   \/ inv[i].trig # <<>>
                                   \/ Failed(i) ))
                => db' = db]_vars

\* witness of C15: a successor composed and deleted the checkpoint that its
\* predecessor left in place when it handed off
C15_Witness ==
    \E i \in Slots :
        /\ inv[i].pc = "done"
        /\ inv[i].startPart > 0
        /\ \E c \in composed : c.by = i /\ c.ok
        /\ db = NoState
        /\ inv[inv[i].parent].trig # <<>>

\* C16: when SendMedia fails the invocation ends in catch: the checkpoint
\* stays in the store, no continuation is dispatched, the invocation
\* issues no further compose request and the error is sent to the chat.
C16_ComposeFailureTerminal ==
    \A c \in composed :
        ~c.ok =>
           /\ inv[c.by].err = "compose"
           /\ inv[c.by].pc \in {"catch", "done"}
           /\ inv[c.by].trig = <<>>
           /\ db # NoState
           /\ db = inv[c.by].state
           /\ \A d \in composed : d.by = c.by => d = c
           /\ inv[c.by].pc = "done" => Reported(c.by)

\* witness of C16: the compose of a resumed invocation failed and was
\* reported
C16_Witness ==
    \E c \in composed :
        /\ ~c.ok
        /\ inv[c.by].pc = "done"
        /\ inv[c.by].startPart > 0
        /\ Reported(c.by)
        /\ db # NoState

\* every request triggerNextWorker has sent so far has thrown
AllThrown(i) == \A k \in 1..Len(inv[i].sent) : ~inv[i].sent[k].resolved

\* C17: triggerNextWorker sends at most 3 requests, a further one only
\* after every earlier one has thrown, and none after one that resolved;
\* when all 3 have thrown the invocation returns without a message to
\* the chat, no successor runs and the checkpoint stays in the store.
C17_BoundedDispatchRetry ==
    \A i \in Slots :
        /\ Len(inv[i].sent) <= DISPATCH_TRIES
        /\ Len(inv[i].sent) = inv[i].tries
        /\ \A k \in 1..(Len(inv[i].sent) - 1) : ~inv[i].sent[k].resolved
        /\ inv[i].pc = "dispatch" =>
              AllThrown(i) /\ Len(inv[i].sent) < DISPATCH_TRIES
        /\ (inv[i].pc = "done" /\ inv[i].trig # <<>>) =>
              \/ inv[i].sent[Len(inv[i].sent)].resolved
              \/ Len(inv[i].sent) = DISPATCH_TRIES
        /\ (inv[i].pc = "done" /\ inv[i].trig # <<>> /\ AllThrown(i)) =>
              /\ \A m \in msgs : m.by # i
              /\ \A s \in Slots : inv[s].parent # i
              /\ db # NoState
              /\ db = inv[i].state

\* witness of C17: a continuation accepted at the second attempt, and the
\* successor's own continuation lost three times after it uploaded a part
C17_Witness ==
    \E i \in Slots : \E s \in Slots :
        /\ Len(inv[i].sent) = 2
        /\ inv[i].sent[2].resolved /\ inv[i].sent[2].delivered
        /\ inv[s].parent = i
        /\ inv[s].pc = "done"
        /\ Len(inv[s].sent) = DISPATCH_TRIES
        /\ AllThrown(s)
        /\ SavedBy(s) # {}

\* C18: once every upload of a batch has succeeded the invocation goes on
\* to the next batch, the next read or the finalizer, whether the
\* progress update after the batch is skipped, succeeds or fails.
C18_ProgressNeverGates ==
    [][\A i \in Slots :
          (inv[i].pc = "await_batch" /\ Succeeded(inv[i].batch)
              /\ inv'[i] # inv[i]) =>
             inv'[i].pc \in {"await_batch", "loop", "finish"}]_vars

\* C19: with a source that ignores the Range header no invocation resumed
\* at nextPart > 0 uploads anything: a job that does not fit into one
\* execution window has failed before, so no part holds bytes of another
\* offset than its own.
C19_NoResumeWithoutRange ==
    \A i \in Slots : inv[i].startPart > 0 => SavedBy(i) = {}

\* the ranged GET of invocation i was answered with an error status
StreamError(i) == inv[i].err \in {"Stream Error: 416", "Stream Error: 5xx"}

\* C20: an invocation reads the source only after a ranged GET that was
\* satisfiable and answered with 2xx; one whose ranged GET was answered
\* with an error status uploads no part, dispatches no continuation,
\* issues no compose request and ends by sending the error to the chat.
C20_RangeFailureTerminal ==
    \A i \in Slots :
        /\ Ranged(i) => inv[i].byteStart < totalSize
        /\ StreamError(i) =>
              /\ inv[i].pc \in {"catch", "done"}
              /\ SavedBy(i) = {}
              /\ inv[i].batch = <<>>
              /\ inv[i].trig = <<>>
              /\ inv[i].sent = <<>>
              /\ \A c \in composed : c.by # i
              /\ inv[i].pc = "done" => Reported(i)

\* witness of C20: a successor of an invocation that uploaded parts got
\* 416 for its range and reported it
C20_Witness ==
    \E i \in Slots :
        /\ inv[i].pc = "done"
        /\ inv[i].err = "Stream Error: 416"
        /\ inv[i].startPart > 0
        /\ Reported(i)
        /\ SavedBy(inv[i].parent) # {}

\* C21: for a source without Content-Length the engine either sends the
\* whole object with its true size (every SaveBigFilePart declares the
\* part count of the object and a job that was composed holds all its
\* bytes) or it has failed before any part was uploaded.
C21_NoLengthAllOrNothing ==
    /\ \A s \in saved :
          inv[s.by].state.totalParts = Ceil(totalSize, CHUNK_SIZE)
    /\ \A c \in composed :
          c.ok => SumLen(SavedUnder(c.fileId)) = totalSize
    /\ \A i \in Slots : Failed(i) => saved = {}

\* invocation i has issued a compose request that succeeded
ComposedOk(i) == \E c \in composed : c.by = i /\ c.ok

\* C22: an invocation that has ended without a call of triggerNextWorker
\* and without a successful compose has failed and has sent a message
\* with the cause to the chat; an invocation that has ended without a
\* message, without a compose and without a successor is one whose
\* continuation requests have all thrown, up to the retry bound.
C22_FailuresReported ==
    \A i \in Slots :
        inv[i].pc = "done" =>
           /\ (inv[i].trig = <<>> /\ ~ComposedOk(i)) =>
                 Failed(i) /\ Reported(i)
           /\ (~Reported(i) /\ ~ComposedOk(i)
                  /\ \A s \in Slots : inv[s].parent # i) =>
                 /\ Len(inv[i].sent) = DISPATCH_TRIES
                 /\ AllThrown(i)

\* the job is DONE: a compose request of it has succeeded
JobDone == \E c \in composed : c.ok

\* the job is FAILED: an invocation of it has ended in catch
JobFailed == \E i \in Slots : inv[i].pc = "done" /\ Failed(i)

\* C23: once the job is DONE or FAILED no further part is uploaded, no
\* continuation is dispatched, no compose request is issued and the
\* checkpoint is not written again; only the delete that follows the
\* successful compose may still take place.
C23_TerminalStates ==
    [][(JobDone \/ JobFailed) =>
          /\ saved' = saved
          /\ composed' = composed
          /\ db' \in {db, NoState}
          /\ \A i \in Slots :
                /\ inv'[i].trig = inv[i].trig
                /\ inv'[i].sent = inv[i].sent]_vars

\* a binding the command needs is missing
ConfigMissing == ~env.LEECH_DB \/ ~env.WORKER_URL

\* C24: in a deployment without LEECH_DB or without WORKER_URL the only
\* thing a /leech command brings about is the config error message: no
\* invocation of runRelay is started, no checkpoint is written, nothing
\* is uploaded and nothing is dispatched.
C24_ConfigErrorOnly ==
    /\ [](ConfigMissing =>
            /\ \A s \in Slots : inv[s] = IdleInv
            /\ db = NoState
            /\ nextFileId = 1
            /\ saved = {}
            /\ composed = {}
            /\ msgs \subseteq {ConfigError})
    /\ [][ConfigMissing => msgs' = {ConfigError}]_vars

\* witness of C24: the command was answered where only WORKER_URL is
\* missing
C24_Witness ==
    /\ env.LEECH_DB
    /\ ~env.WORKER_URL
    /\ msgs = {ConfigError}

\* the fields of a checkpoint (filename is the same for the whole job)
CheckpointFields == {"fileId", "totalParts", "totalSize"}

\* the cursor of invocation i is the nextPart of a request of its parent,
\* 0 for the command; it is the index its first part gets
CursorFromPayload(i) ==
    /\ inv[i].parent = 0 => inv[i].startPart = 0
    /\ inv[i].parent # 0 =>
          \E k \in 1..Len(inv[inv[i].parent].trig) :
              inv[inv[i].parent].trig[k].nextPart = inv[i].startPart
    /\ inv[i].pc \in {"connect", "getstate", "head", "range"} =>
          inv[i].partIdx = inv[i].startPart
    /\ inv[i].pc \in {"loop", "read", "await_batch"} =>
          inv[i].byteStart = inv[i].startPart * CHUNK_SIZE
    /\ \A s \in SavedBy(i) : s.part >= inv[i].startPart
    /\ \A k \in 1..Len(inv[i].batch) :
          inv[i].batch[k].part >= inv[i].startPart

Emitted(i) ==
    {[part |-> x.part, bytes |-> x.bytes] : x \in SavedBy(i)}
      \cup {[part |-> inv[i].batch[k].part, bytes |-> inv[i].batch[k].bytes] :
                k \in 1..Len(inv[i].batch)}

\* the parts a..b of E, joined in the order of their indices
RECURSIVE Joined(_, _, _)
Joined(E, a, b) ==
    IF a > b
    THEN <<>>
    ELSE (CHOOSE e \in E : e.part = a).bytes \o Joined(E, a + 1, b)

\* the source bytes from offset a up to, not including, offset b
SourceBytes(a, b) == [k \in 1..(b - a) |-> a + k - 1]

\* C26: while an invocation streams, the parts it has emitted have the
\* indices startPart .. partIdx - 1, each once; joined in that order they
\* are the bytes read from the stream that are no longer in the buffer,
\* and the buffer holds the rest of the bytes read; between two reads the
\* buffer holds fewer than CHUNK_SIZE bytes.
C26_ChunkAssembler ==
    \A i \in Slots :
        inv[i].pc \in {"loop", "read", "await_batch", "finish"} =>
            LET E == Emitted(i)
                cut == inv[i].pos - Len(inv[i].buffer)
            IN  /\ {e.part : e \in E} = inv[i].startPart..(inv[i].partIdx - 1)
                /\ Cardinality(E) = inv[i].partIdx - inv[i].startPart
                /\ Joined(E, inv[i].startPart, inv[i].partIdx - 1)
                      = SourceBytes(inv[i].byteStart, cut)
                /\ inv[i].buffer = SourceBytes(cut, inv[i].pos)
                /\ inv[i].pc \in {"loop", "read"} =>
                      Len(inv[i].buffer) < CHUNK_SIZE
                /\ inv[i].pc = "finish" => inv[i].buffer = <<>>

\* witness of C26: a resumed invocation between two reads that has
\* emitted three parts or more and keeps a byte in the buffer
C26_Witness ==
    \E i \in Slots :
        /\ inv[i].pc = "loop"
        /\ inv[i].startPart > 0
        /\ inv[i].partIdx >= inv[i].startPart + 3
        /\ Len(inv[i].buffer) = 1

\* C27: a part whose upload has succeeded is stored once by its
\* invocation, under the invocation's fileId, with the index and the chunk
\* captured when it was cut, whether the first attempt or the retry
\* succeeded; its bytes are stored under no other index, and they are the
\* bytes that follow the parts below it in the stream (where those parts
\* are all stored).
C27_RetryStoresSame ==
    \A i \in Slots :
        \A k \in 1..Len(inv[i].batch) :
            LET p == inv[i].batch[k]
            IN  p.st = "ok" =>
                   /\ {s \in SavedBy(i) : s.part = p.part}
                         = {[fileId |-> inv[i].state.fileId, part |-> p.part,
                             bytes |-> p.bytes, by |-> i]}
                   /\ \A s \in SavedBy(i) :
                         s.part # p.part => s.bytes # p.bytes
                   /\ p.bytes = SourceBytes(
                         inv[i].byteStart
                           + SumLen({s \in SavedBy(i) : s.part < p.part}),
                         inv[i].byteStart
                           + SumLen({s \in SavedBy(i) : s.part <= p.part}))
                       \/ \E j \in 1..(k - 1) : inv[i].batch[j].st # "ok"

\* witness of C27: in one batch a part was stored by its retry and a later
\* part by its first attempt
C27_Witness ==
    \E i \in Slots :
        \E j, k \in 1..Len(inv[i].batch) :
            /\ j < k
            /\ inv[i].batch[j].st = "ok"
            /\ inv[i].batch[j].n = 2
            /\ inv[i].batch[k].st = "ok"
            /\ inv[i].batch[k].n = 1

\* the indices stored under fileId f
IndicesUnder(f) == {s.part : s \in SavedUnder(f)}

\* C28: a SendMedia request is issued only when every index below the
\* parts count it declares is stored under its fileId, and that count is
\* the number of indices stored under the fileId.
C28_ComposeOnlyWhenComplete ==
    \A c \in composed :
        /\ 0..(c.parts - 1) \subseteq IndicesUnder(c.fileId)
        /\ c.parts = Cardinality(IndicesUnder(c.fileId))

\* invocation j was started by i or by an invocation started through i
RECURSIVE StartedThrough(_, _, _)
StartedThrough(j, i, depth) ==
    /\ depth > 0
    /\ inv[j].parent # 0
    /\ \/ inv[j].parent = i
       \/ StartedThrough(inv[j].parent, i, depth - 1)

\* the fileIds in requests made by invocation i
FileIdsUsedBy(i) ==
    {s.fileId : s \in SavedBy(i)} \cup {c.fileId : c \in {d \in composed : d.by = i}}

\* C29: an invocation with startPart = 0 that has read a checkpoint for the
\* link replaces it, before it uploads anything, with a state whose fileId
\* was never used and whose totalParts and totalSize come from its own
\* HEAD; neither it nor an invocation started through it sends a request
\* with a fileId older than that one.
C29_RestartOverwrites ==
    /\ [][\A i \in Slots :
            (/\ inv[i].startPart = 0
             /\ inv[i].pc = "head"
             /\ inv[i].state # NoState
             /\ inv'[i].pc \notin {"head", "catch"}) =>
                /\ inv'[i].pc = "range"
                /\ inv'[i].state.fileId # inv[i].state.fileId
                /\ inv'[i].state.fileId # db.fileId
                /\ \A s \in saved : s.fileId # inv'[i].state.fileId
                /\ \A c \in composed : c.fileId # inv'[i].state.fileId
                /\ inv'[i].state.totalSize = totalSize
                /\ inv'[i].state.totalParts = Ceil(totalSize, CHUNK_SIZE)
                /\ db' = inv'[i].state
                /\ SavedBy(i) = {}]_vars
    /\ [](\A i \in Slots :
            (inv[i].startPart = 0 /\ inv[i].pc \notin {"idle", "connect",
                                                      "getstate", "head"}
               /\ inv[i].state # NoState) =>
               \A j \in Slots :
                   (j = i \/ StartedThrough(j, i, Cardinality(Slots))) =>
                      \A f \in FileIdsUsedBy(j) : f >= inv[i].state.fileId)

\* witness of C29: an invocation with startPart = 0 has replaced a
\* checkpoint under which a part was stored, and a part is stored under
\* the new fileId
C29_Witness ==
    \E i \in Slots :
        /\ inv[i].startPart = 0
        /\ SavedBy(i) # {}
        /\ \E s \in saved : s.fileId < inv[i].state.fileId

\* invocation i has called triggerNextWorker / has sent a SendMedia
HandedOff(i) == inv[i].trig # <<>>
ComposeIssued(i) == \E c \in composed : c.by = i

\* the invocations started by a continuation request of i
Successors(i) == {j \in Slots : inv[j].parent = i}

\* C30: an invocation that has ended has either handed off (one call of
\* triggerNextWorker, no compose), or finalized (compose, no hand-off), or
\* failed (neither); no invocation does both, and no invocation has more
\* than one successor.
C30_OneEnding ==
    \A i \in Slots :
        /\ inv[i].pc = "done" =>
              \/ Len(inv[i].trig) = 1 /\ ~ComposeIssued(i) /\ ~Failed(i)
              \/ ComposeIssued(i) /\ ~HandedOff(i) /\ ~Failed(i)
              \/ Failed(i) /\ ~HandedOff(i) /\ ~ComposeIssued(i)
        /\ ~(HandedOff(i) /\ ComposeIssued(i))
        /\ Cardinality(Successors(i)) <= 1

\* C31: every continuation payload of an invocation carries a nextPart
\* above the invocation's startPart, so each hand-off moves the job on by
\* one part at least.
C31_HandOffProgress ==
    \A i \in Slots :
        \A k \in 1..Len(inv[i].trig) :
            inv[i].trig[k].nextPart > inv[i].startPart

\* C32: every continuation payload names a part that is still to be
\* uploaded, 0 <= nextPart < totalParts, and no invocation has its ranged
\* GET refused for starting at or behind the end of the object.
C32_DispatchWhilePartsRemain ==
    \A i \in Slots :
        /\ \A k \in 1..Len(inv[i].trig) :
              /\ 0 <= inv[i].trig[k].nextPart
              /\ inv[i].trig[k].nextPart < inv[i].state.totalParts
        /\ inv[i].err # "Stream Error: 416"

\* the continuation request k of invocation i was accepted by the route
Accepted(i, k) == inv[i].sent[k].delivered /\ inv[i].sent[k].resolved

\* C33: triggerNextWorker stops sending only after a request that the
\* resume route accepted or when the retry bound is reached: a request
\* answered with a refusal is followed by another one like a thrown one.
C33_RejectedDispatchRetried ==
    \A i \in Slots :
        (inv[i].pc = "done" /\ inv[i].sent # <<>>) =>
            \/ Accepted(i, Len(inv[i].sent))
            \/ Len(inv[i].sent) = DISPATCH_TRIES

\* C34: in the Short Burst variant an invocation stores at most
\* CHUNKS_PER_RUN parts, and the continuation it dispatches carries
\* nextPart = startPart + CHUNKS_PER_RUN.
C34_BurstLimit ==
    \A i \in Slots :
        /\ inv[i].chunksProcessed <= CHUNKS_PER_RUN
        /\ Cardinality(SavedBy(i)) <= CHUNKS_PER_RUN
        /\ \A k \in 1..Len(inv[i].trig) :
              inv[i].trig[k].nextPart = inv[i].startPart + CHUNKS_PER_RUN

\* the hand-off of invocation i has ended without a request that the
\* relay route accepted
RelayNotOk(i) ==
    /\ inv[i].pc = "done"
    /\ HandedOff(i)
    /\ inv[i].sent = <<>> \/ ~Accepted(i, Len(inv[i].sent))

\* C35: in the Final Stable variant an invocation whose triggerNextWorker
\* returned ok: false has edited the status message to the relay failure
\* before it returned, whichever check made it hand off.
C35_RelayFailureReported ==
    \A i \in Slots : RelayNotOk(i) => RelayFailed(i) \in msgs

\* the source response is one that processLeech must not upload
Refused ==
    \/ ~bot.srcOk
    \/ ~bot.hasLength
    \/ totalSize > DIRECT_LIMIT

\* C36: when the source response is not ok, has no Content-Length or
\* declares more than the limit, the direct-stream bot starts neither the
\* pump nor the sendDocument request and writes nothing; it sends one
\* failure message and ends.
C36_NoUploadWhenRefused ==
    (bot.pc # "idle" /\ Refused) =>
        /\ ~bot.uploadStarted
        /\ bot.stream = "none"
        /\ bot.pump = "idle"
        /\ bot.written = <<>>
        /\ Len(bot.notes) <= 1
        /\ bot.pc = "done" => Len(bot.notes) = 1
        /\ bot.pc \in {"fetch", "catch", "done"}

\* witness of C36: an ok response with a Content-Length above the limit
\* was answered with the one message
C36_Witness ==
    /\ bot.pc = "done"
    /\ bot.srcOk
    /\ bot.hasLength
    /\ totalSize > DIRECT_LIMIT
    /\ bot.notes = <<"too big">>

\* the multipart body of an upload that runs to its end
FullBody ==
    Encode(bot.headerPart, HeaderByte) \o SourceBytes(0, totalSize)
      \o Encode(FooterPart, FooterByte)

\* C37: what the pump has written is at every moment a prefix of header,
\* source bytes in source order, footer; a footer byte is written only
\* after the reader reported done; a closed stream holds the whole body
\* and follows no failure, a failure leaves the stream aborted; and the
\* Content-Length of the upload is the byte length of the header plus
\* the source's Content-Length plus the byte length of the footer.
C37_MultipartBody ==
    bot.pc \notin {"idle", "fetch"} /\ bot.uploadStarted =>
        /\ Len(bot.written) <= Len(FullBody)
        /\ bot.written = SubSeq(FullBody, 1, Len(bot.written))
        /\ (\E k \in 1..Len(bot.written) : bot.written[k] = FooterByte) =>
              bot.done /\ bot.pos = totalSize
        /\ bot.stream = "closed" =>
              bot.written = FullBody /\ ~bot.pumpFailed
        /\ bot.pumpFailed => bot.stream = "aborted"
        /\ bot.declared = Len(Encode(bot.headerPart, HeaderByte)) + totalSize
                            + Len(Encode(FooterPart, FooterByte))

\* witness of C37: a stream closed after a header with a two-byte
\* character and a body that came in two reads or more
C37_Witness ==
    /\ bot.pc # "idle"
    /\ bot.stream = "closed"
    /\ bot.headerPart = <<1, 2>>
    /\ totalSize > DirectRead

\* C38: the hybrid bot never hands an object above the limit to
\* streamToTelegram; when its request for such an object has ended it has
\* made one GitHub dispatch if GITHUB_TOKEN is set, and none, with an
\* error message, if not.
C38_BigNeverStreamed ==
    (bot.pc # "idle" /\ totalSize > HYBRID_LIMIT) =>
        /\ ~bot.streamed
        /\ bot.pc = "done" =>
              IF env.GITHUB_TOKEN
              THEN bot.dispatches = 1
              ELSE bot.dispatches = 0 /\ bot.notes # <<>>

====
